---- MODULE Spec2Model ----
(***************************************************************************)
(* git-zip-tree (builtin-zip-tree.c): one build of a ZIP archive.          *)
(*                                                                         *)
(* The archive stream (fd 1) and the central directory buffer are kept by  *)
(* their byte counts and by the structures most recently written to them;  *)
(* strings are run-length sequences (a run is a character and a count), so *)
(* that a path of 65535 bytes is three runs and not 65535 elements.        *)
(*   Integers of the program keep their width: unsigned int is 32 bits,    *)
(* the packed fields are 16 and 32 bits.  write_or_die, xmalloc and        *)
(* xrealloc are taken to succeed.                                          *)
(***************************************************************************)
EXTENDS Integers, Sequences, FiniteSets, TLC

VARIABLES
    pc,                     \* position in cmd_zip_tree: "base", "tree", "done",
                            \* "dead", or "grow" (in the loop of line 209)
    repo,                   \* the tree and object store the command runs on
    zlib_compression_level, \* cache.h global, set from -0..-9
    zip_date, zip_time,     \* builtin-zip-tree.c:15-16
    commit,                 \* cmd_zip_tree: commit != NULL
    arg_base,               \* argv[2], the base as the command was given it
    base, baselen,          \* base path handed to the callback
    stack,                  \* enclosing directories of the traversal
    zip_dir_size,           \* builtin-zip-tree.c:19
    zip_offset,             \* builtin-zip-tree.c:21
    zip_dir_offset,         \* builtin-zip-tree.c:22
    zip_dir_entries,        \* builtin-zip-tree.c:23
    out_total,              \* bytes written to fd 1 so far (the stream position)
    dir_records,            \* records copied into zip_dir
    dir_bytes,              \* bytes copied into zip_dir
    calls,                  \* calls of write_zip_entry so far
    succeeded,              \* calls of write_zip_entry that returned 0 or
                            \* READ_TREE_RECURSIVE
    last,                   \* the most recent call of write_zip_entry: what it
                            \* was given and what it wrote
    lastw,                  \* the record most recently put into zip_dir, and
                            \* where it and its local header were put
    trailer                 \* what write_zip_trailer wrote

vars == <<pc, repo, zlib_compression_level, zip_date, zip_time, commit,
          arg_base, base, baselen, stack, zip_dir_size, zip_offset,
          zip_dir_offset, zip_dir_entries, out_total, dir_records, dir_bytes,
          calls, succeeded, last, lastw, trailer>>

-----------------------------------------------------------------------------
(* Widths and layout                                                        *)
(*                                                                         *)
(* Byte counts pass 2^31, the largest integer TLC computes with, so a     *)
(* byte count is a pair of limbs: hi * 65536 + lo with 0 <= lo < 65536.    *)

WBase == 65536

Wide(hi, lo) == [hi |-> hi + lo \div WBase, lo |-> lo % WBase]
W(n) == Wide(0, n)
WAdd(a, b) == Wide(a.hi + b.hi, a.lo + b.lo)
WSub(a, b) ==
    IF a.lo >= b.lo THEN [hi |-> a.hi - b.hi, lo |-> a.lo - b.lo]
    ELSE [hi |-> a.hi - b.hi - 1, lo |-> a.lo - b.lo + WBase]
WLess(a, b) == a.hi < b.hi \/ (a.hi = b.hi /\ a.lo < b.lo)
WLeq(a, b) == ~WLess(b, a)

\* unsigned int arithmetic: the low 32 bits
UInt(a) == [hi |-> a.hi % WBase, lo |-> a.lo]

ZIP_DIRECTORY_MIN_SIZE == W(1024 * 1024)

SizeofLocalHeader == 30
SizeofDirHeader == 46
SizeofDirTrailer == 22

READ_TREE_RECURSIVE == 1

\* dest[0] = 0xff & n; dest[1] = 0xff & (n >> 010)
copy_le16(n) == << n % 256, (n \div 256) % 256 >>

\* dest[0..3] = the four low bytes of n, lowest first
copy_le32(a) ==
    << a.lo % 256, (a.lo \div 256) % 256, a.hi % 256, (a.hi \div 256) % 256 >>

\* The numbers a reader of the archive gets from little-endian fields.
le16_value(bytes) == bytes[1] + 256 * bytes[2]
le32_value(bytes) ==
    [hi |-> bytes[3] + 256 * bytes[4], lo |-> bytes[1] + 256 * bytes[2]]

-----------------------------------------------------------------------------
(* Strings                                                                  *)

Run(c, n) == [c |-> c, n |-> n]
Str(c, n) == IF n = 0 THEN <<>> ELSE << Run(c, n) >>

RECURSIVE strlen(_)
strlen(s) == IF s = <<>> THEN 0 ELSE Head(s).n + strlen(Tail(s))

\* stat.h: S_ISDIR, S_ISREG test the file-type bits 0170000
S_IFMT(mode) == (mode \div 4096) % 16
S_ISDIR(mode) == S_IFMT(mode) = 4
S_ISREG(mode) == S_IFMT(mode) = 8

construct_path(b, blen, filename, isdir) ==
    LET filenamelen == strlen(filename)
        len == blen + filenamelen + (IF isdir THEN 1 ELSE 0)
    IN  [path |-> b \o filename
                    \o (IF isdir THEN Str("/", 1) ELSE <<>>),
         pathlen |-> len]

\* dos_time: localtime()'s broken-down time packed into DOS date and time
dos_time(t) ==
    [dos_date |-> t.tm_mday + (t.tm_mon + 1) * 32
                    + (t.tm_year + 1900 - 1980) * 512,
     dos_time |-> t.tm_sec \div 2 + t.tm_min * 32 + t.tm_hour * 2048]

-----------------------------------------------------------------------------
(* The object store and zlib                                                *)

NoObject == [id |-> 0, size |-> W(0)]      \* read_sha1_file returned NULL
Blob(id, size) == [id |-> id, size |-> size]

\* zlib's crc32(): crc32(0, Z_NULL, 0) is the initial value 0; over a buffer
\* it is a checksum of the content (kept here as a mix of the running value
\* and the content's identity and length).
crc32_init == W(0)
crc32(crc, buffer) ==
    Wide((crc.hi * 31 + buffer.id * 40503) % WBase,
         (crc.lo * 17 + buffer.id * 257 + buffer.size.lo + 1) % WBase)

\* What deflate() produced for one buffer: no stream (result != Z_STREAM_END)
\* or a zlib stream of total_out bytes.
NotCalled == [ok |-> FALSE, total_out |-> W(0), called |-> FALSE]
Z_FAILED == [ok |-> FALSE, total_out |-> W(0), called |-> TRUE]
Z_STREAM(n) == [ok |-> TRUE, total_out |-> n, called |-> TRUE]

\* zlib_deflate: NULL and *compressed_size untouched on failure, else the
\* buffer and *compressed_size = stream.total_out
zlib_deflate(z, compressed_size) ==
    IF z.ok THEN [deflated |-> TRUE, compressed_size |-> z.total_out]
    ELSE [deflated |-> FALSE, compressed_size |-> compressed_size]

-----------------------------------------------------------------------------
(* write_zip_entry                                                          *)

NoPayload == [buf |-> "none", skip |-> 0]

\* Off by one: a path of 65535 bytes is refused as well
PathTooLong_from65535(pathlen) == pathlen >= 65535

\* The length of the path not looked at before the headers are filled
PathTooLong_unchecked(pathlen) == FALSE

\* if (pathlen > 0xffff)
PathTooLong(pathlen) == pathlen > 65535

\* method = zlib_compression_level == 0 ? 0 : 8
InitialMethod(level) == IF level = 0 THEN 0 ELSE 8

\* The stream is also taken when it saves nothing
DeflateAccepted_orEqual(deflated, compressed_size, size) ==
    /\ deflated
    /\ WLeq(W(6), compressed_size)
    /\ WLeq(WSub(compressed_size, W(6)), size)

\* if (deflated && compressed_size - 6 < size): the subtraction is unsigned,
\* so a compressed_size below 6 wraps to a value above every size
DeflateAccepted(deflated, compressed_size, size) ==
    /\ deflated
    /\ WLeq(W(6), compressed_size)
    /\ WLess(WSub(compressed_size, W(6)), size)

\* A call that leaves through "goto out" with result = -1
Skipped(cp, mode) ==
    [kind |-> "skipped", result |-> -1, path |-> cp.path,
     pathlen |-> cp.pathlen, mode |-> mode, blob |-> NoObject,
     zout |-> NotCalled, method |-> 0, crc |-> crc32_init,
     compressed_size |-> W(0), uncompressed_size |-> W(0),
     out |-> NoPayload]

\* An unreadable blob treated like the other errors: goto out
CannotRead_skips(cp, mode) ==
    [kind |-> "skipped", result |-> -1, path |-> cp.path,
     pathlen |-> cp.pathlen, mode |-> mode, blob |-> NoObject,
     zout |-> NotCalled, method |-> 0, crc |-> crc32_init,
     compressed_size |-> W(0), uncompressed_size |-> W(0),
     out |-> NoPayload]

\* if (!buffer) die("cannot read %s", ...)
CannotRead(cp, mode) ==
    [kind |-> "died", result |-> 0, path |-> cp.path,
     pathlen |-> cp.pathlen, mode |-> mode, blob |-> NoObject,
     zout |-> NotCalled, method |-> 0, crc |-> crc32_init,
     compressed_size |-> W(0), uncompressed_size |-> W(0),
     out |-> NoPayload]

\* if (S_ISDIR(mode)) { ... }
DirectoryEntry(cp, mode) ==
    [kind |-> "written", result |-> READ_TREE_RECURSIVE, path |-> cp.path,
     pathlen |-> cp.pathlen, mode |-> mode, blob |-> NoObject,
     zout |-> NotCalled, method |-> 0, crc |-> crc32_init,
     compressed_size |-> W(0), uncompressed_size |-> W(0),
     out |-> NoPayload]

\* else if (S_ISREG(mode)) { ... } followed by if (method == 8) { ... }
FileEntry(cp, mode, level, buffer, z) ==
    LET size == buffer.size
        method == InitialMethod(level)
        crc == crc32(crc32_init, buffer)
        d == zlib_deflate(z, size)
        stored == [kind |-> "written", result |-> 0, path |-> cp.path,
                   pathlen |-> cp.pathlen, mode |-> mode, blob |-> buffer,
                   zout |-> NotCalled, method |-> method, crc |-> crc,
                   compressed_size |-> size, uncompressed_size |-> size,
                   out |-> [buf |-> "buffer", skip |-> 0]]
    IN  IF method = 8
        THEN IF DeflateAccepted(d.deflated, d.compressed_size, size)
             THEN [stored EXCEPT
                     !.zout = z,
                     !.out = [buf |-> "deflated", skip |-> 2],
                     !.compressed_size = WSub(d.compressed_size, W(6))]
             ELSE [stored EXCEPT
                     !.zout = z, !.method = 0, !.compressed_size = size]
        ELSE stored

\* The part of write_zip_entry before the directory record is built:
\* lines 163-205.
Classify(b, blen, filename, mode, level, obj, z) ==
    LET cp == construct_path(b, blen, filename, S_ISDIR(mode))
    IN  IF PathTooLong(cp.pathlen) THEN Skipped(cp, mode)
        ELSE IF S_ISDIR(mode) THEN DirectoryEntry(cp, mode)
        ELSE IF S_ISREG(mode)
             THEN IF obj = NoObject THEN CannotRead(cp, mode)
                  ELSE FileEntry(cp, mode, level, obj, z)
        ELSE Skipped(cp, mode)

\* while (zip_dir_size < zip_dir_offset + direntsize)
\*         zip_dir_size += ZIP_DIRECTORY_MIN_SIZE;
RECURSIVE GrowDirectory(_, _)
GrowDirectory(size, need) ==
    IF WLess(size, need)
    THEN GrowDirectory(UInt(WAdd(size, ZIP_DIRECTORY_MIN_SIZE)), need)
    ELSE size

\* The loop of lines 209-212 when no value of the 32-bit zip_dir_size reaches
\* need (the sum is an unsigned long): the addition wraps and the loop does
\* not end.
RECURSIVE GrowLoops(_, _)
GrowLoops(size, need) ==
    LET next == WAdd(size, ZIP_DIRECTORY_MIN_SIZE)
    IN  /\ WLess(size, need)
        /\ \/ UInt(next) # next
           \/ GrowLoops(next, need)

\* zip_dir_size just after the addition of line 210 wrapped
RECURSIVE GrowWrapped(_)
GrowWrapped(size) ==
    LET next == WAdd(size, ZIP_DIRECTORY_MIN_SIZE)
    IN  IF UInt(next) # next THEN UInt(next) ELSE GrowWrapped(next)

\* struct zip_dir_header as lines 214-230 pack it
DirHeaderFields(method, time, date, crc, csize, size, pathlen, offset) ==
    [magic |-> copy_le32(Wide(513, 19280)),          \* 0x02014b50
     creator_version |-> copy_le16(0),
     version |-> copy_le16(20),
     flags |-> copy_le16(0),
     compression_method |-> copy_le16(method),
     mtime |-> copy_le16(time),
     mdate |-> copy_le16(date),
     crc32 |-> copy_le32(crc),
     compressed_size |-> copy_le32(csize),
     size |-> copy_le32(size),
     filename_length |-> copy_le16(pathlen),
     extra_length |-> copy_le16(0),
     comment_length |-> copy_le16(0),
     disk |-> copy_le16(0),
     attr1 |-> copy_le16(0),
     attr2 |-> copy_le32(W(0)),
     offset |-> copy_le32(offset)]

\* The record filled in after the entry was written, from the advanced cursor
DirHeader_afterWrite(e, time, date, offset) ==
    DirHeaderFields(e.method, time, date, e.crc, e.compressed_size,
                    e.uncompressed_size, e.pathlen,
                    UInt(WAdd(offset,
                              WAdd(W(SizeofLocalHeader + e.pathlen),
                                   e.compressed_size))))

\* The two size fields of the record filled the wrong way round
DirHeader_sizesSwapped(e, time, date, offset) ==
    DirHeaderFields(e.method, time, date, e.crc, e.uncompressed_size,
                    e.compressed_size, e.pathlen, offset)

\* The central directory record of entry e, written while zip_offset is
\* offset
DirHeader(e, time, date, offset) ==
    DirHeaderFields(e.method, time, date, e.crc, e.compressed_size,
                    e.uncompressed_size, e.pathlen, offset)

\* The local file header, lines 237-247
LocalHeader(e, time, date) ==
    [magic |-> copy_le32(Wide(1027, 19280)),         \* 0x04034b50
     version |-> copy_le16(20),
     flags |-> copy_le16(0),
     compression_method |-> copy_le16(e.method),
     mtime |-> copy_le16(time),
     mdate |-> copy_le16(date),
     crc32 |-> copy_le32(e.crc),
     compressed_size |-> copy_le32(e.compressed_size),
     size |-> copy_le32(e.uncompressed_size),
     filename_length |-> copy_le16(e.pathlen),
     extra_length |-> copy_le16(0)]

\* The payload written for as many bytes as the blob has
PayloadBytes_uncompressed(e) ==
    IF WLess(W(0), e.uncompressed_size) THEN e.uncompressed_size ELSE W(0)

\* if (compressed_size > 0) write_or_die(1, out, compressed_size);
PayloadBytes(e) ==
    IF WLess(W(0), e.compressed_size) THEN e.compressed_size ELSE W(0)

\* Bytes that lines 248-255 write to fd 1 for one entry
EntryBytes(e) ==
    WAdd(W(SizeofLocalHeader + e.pathlen), PayloadBytes(e))

\* The cursor not advanced over the path bytes
AdvanceOffset_noPath(offset, e) ==
    LET o1 == UInt(WAdd(offset, W(SizeofLocalHeader)))
    IN  IF WLess(W(0), e.compressed_size)
        THEN UInt(WAdd(o1, e.compressed_size))
        ELSE o1

\* zip_offset += sizeof(struct zip_local_header); zip_offset += pathlen;
\* if (compressed_size > 0) zip_offset += compressed_size;
AdvanceOffset(offset, e) ==
    LET o1 == UInt(WAdd(offset, W(SizeofLocalHeader)))
        o2 == UInt(WAdd(o1, W(e.pathlen)))
    IN  IF WLess(W(0), e.compressed_size)
        THEN UInt(WAdd(o2, e.compressed_size))
        ELSE o2

\* zip_dir_offset += sizeof(struct zip_dir_header); zip_dir_offset += pathlen;
AdvanceDirOffset(offset, e) ==
    UInt(WAdd(UInt(WAdd(offset, W(SizeofDirHeader))), W(e.pathlen)))

\* The buffers a call allocates: path (construct_path), buffer
\* (read_sha1_file) and deflated (the output buffer of zlib_deflate)
Buffers == {"path", "buffer", "deflated"}

\* xmalloc(len + 1) at line 128, read_sha1_file at line 181, xmalloc(maxsize)
\* at line 97
Allocated(e) ==
    [path |-> 1,
     buffer |-> IF e.blob # NoObject THEN 1 ELSE 0,
     deflated |-> IF e.zout.called THEN 1 ELSE 0]

\* if (result != Z_STREAM_END) { free(buffer); return NULL; }
FreedByDeflate(e) ==
    [path |-> 0,
     buffer |-> 0,
     deflated |-> IF e.zout.called /\ ~e.zout.ok THEN 1 ELSE 0]

\* The compressed output released only when the entry was written deflated
FreedAtOut_ifDeflated(e) ==
    [path |-> 1,
     buffer |-> IF e.blob # NoObject THEN 1 ELSE 0,
     deflated |-> IF e.method = 8 THEN 1 ELSE 0]

\* out: free(buffer); free(deflated); free(path);  (free(NULL) does nothing,
\* and deflated is NULL unless zlib_deflate returned its buffer)
FreedAtOut(e) ==
    [path |-> 1,
     buffer |-> IF e.blob # NoObject THEN 1 ELSE 0,
     deflated |-> IF e.zout.called /\ e.zout.ok THEN 1 ELSE 0]

\* Allocations and releases of one call; only a call that returns gets to
\* the label out
Memory(e) ==
    [allocated |-> Allocated(e),
     freed |-> IF e.kind \in {"written", "skipped"}
               THEN [b \in Buffers |-> FreedByDeflate(e)[b] + FreedAtOut(e)[b]]
               ELSE FreedByDeflate(e)]

ZeroHeader == LocalHeader(Skipped([path |-> <<>>, pathlen |-> 0], 0), 0, 0)
ZeroDirent == DirHeader(Skipped([path |-> <<>>, pathlen |-> 0], 0), 0, 0, W(0))

\* What a call left behind, for a call that wrote nothing
Nothing(e, obj) ==
    [entry |-> e, store |-> obj, header |-> ZeroHeader, dirent |-> ZeroDirent,
     pos |-> W(0), dirpos |-> W(0), npath |-> 0, npayload |-> W(0),
     mem |-> Memory(e)]

NoRecord == [dirent |-> ZeroDirent, pos |-> W(0), dirpos |-> W(0)]

NoCall == Nothing(Skipped([path |-> <<>>, pathlen |-> 0], 0), NoObject)

\* One call write_zip_entry(sha1, b, blen, filename, mode, stage), where the
\* object store answers obj for sha1 and deflate() yields z.
write_zip_entry(b, blen, filename, mode, obj, z) ==
    LET e == Classify(b, blen, filename, mode, zlib_compression_level, obj, z)
        direntsize == W(SizeofDirHeader + e.pathlen)
        need == WAdd(zip_dir_offset, direntsize)
    IN  /\ calls' = calls + 1
        /\ IF e.kind = "written" /\ GrowLoops(zip_dir_size, need)
           THEN /\ zip_dir_size' = GrowWrapped(zip_dir_size)
                /\ last' = Nothing([e EXCEPT !.kind = "growing"], obj)
                /\ UNCHANGED <<zip_dir_offset, zip_dir_entries, dir_records,
                               dir_bytes, zip_offset, out_total, lastw>>
           ELSE IF e.kind = "written"
           THEN /\ zip_dir_size' = GrowDirectory(zip_dir_size, need)
                /\ zip_dir_offset' = AdvanceDirOffset(zip_dir_offset, e)
                /\ zip_dir_entries' = zip_dir_entries + 1
                /\ dir_records' = dir_records + 1
                /\ dir_bytes' = WAdd(dir_bytes, direntsize)
                /\ zip_offset' = AdvanceOffset(zip_offset, e)
                /\ out_total' = WAdd(out_total, EntryBytes(e))
                /\ last' = [entry |-> e,
                            store |-> obj,
                            header |-> LocalHeader(e, zip_time, zip_date),
                            dirent |-> DirHeader(e, zip_time, zip_date, zip_offset),
                            pos |-> out_total,
                            dirpos |-> dir_bytes,
                            npath |-> e.pathlen,
                            npayload |-> PayloadBytes(e),
                            mem |-> Memory(e)]
                /\ lastw' = [dirent |-> last'.dirent, pos |-> last'.pos,
                             dirpos |-> last'.dirpos]
           ELSE /\ last' = Nothing(e, obj)
                /\ UNCHANGED <<zip_dir_size, zip_dir_offset, zip_dir_entries,
                               dir_records, dir_bytes, zip_offset, out_total,
                               lastw>>
        /\ succeeded' = IF last'.entry.kind \in {"written", "skipped"}
                           /\ e.result # -1
                        THEN succeeded + 1 ELSE succeeded

-----------------------------------------------------------------------------
(* write_zip_trailer                                                        *)

NoTrailer ==
    [written |-> FALSE,
     magic |-> copy_le32(W(0)), disk |-> copy_le16(0),
     directory_start_disk |-> copy_le16(0),
     entries_on_this_disk |-> copy_le16(0), entries |-> copy_le16(0),
     size |-> copy_le32(W(0)), offset |-> copy_le32(W(0)),
     comment_length |-> copy_le16(0),
     dirstart |-> W(0), ndir |-> W(0), ncomment |-> 0]

\* The comment length given as the 20 bytes of the binary digest
CommentLength_raw(sha1) == IF sha1 THEN 20 ELSE 0

\* copy_le16(trailer.comment_length, sha1 ? 40 : 0);
CommentLength(sha1) == IF sha1 THEN 40 ELSE 0

\* if (sha1) write_or_die(1, sha1_to_hex(sha1), 40);
CommentBytes(sha1) == IF sha1 THEN 40 ELSE 0

\* The trailer structure, lines 269-276, and what lines 278-281 write: the
\* zip_dir_offset bytes of zip_dir starting at stream position dirstart, the
\* trailer, and the 40 hex characters of sha1 if there is one.
write_zip_trailer(sha1) ==
    [written |-> TRUE,
     magic |-> copy_le32(Wide(1541, 19280)),         \* 0x06054b50
     disk |-> copy_le16(0),
     directory_start_disk |-> copy_le16(0),
     entries_on_this_disk |-> copy_le16(zip_dir_entries),
     entries |-> copy_le16(zip_dir_entries),
     size |-> copy_le32(zip_dir_offset),
     offset |-> copy_le32(zip_offset),
     comment_length |-> copy_le16(CommentLength(sha1)),
     dirstart |-> out_total,
     ndir |-> zip_dir_offset,
     ncomment |-> CommentBytes(sha1)]

-----------------------------------------------------------------------------
(* The repositories the command is run on                                   *)

MaxEntries == 3         \* entries of the tree of the small repository
MaxDepth == 2           \* nesting of its directories
MaxBigEntries == 3      \* entries of the tree of the repository of big blobs
ManyEntries == 65536    \* entries of the flat tree of many files
LongEntries == 65476    \* entries of the flat tree of long paths

S_IFDIR == 16384        \* 0040000
S_IFLNK == 40960        \* 0120000
RegularFile == 33188    \* 0100644
BaseMode == 16895       \* 040777, line 340

\* A run of character c stands for that many bytes other than '/' and NUL.
SmallRepo ==
    [names |-> {Str("f", 1), Str("f", 65534), Str("f", 65535),
                 Str("f", 65536)},
     modes |-> {S_IFDIR, RegularFile, S_IFLNK},
     objects |-> {NoObject, Blob(1, W(0)), Blob(2, W(5))},
     entries |-> MaxEntries, depth |-> MaxDepth]

\* Blobs of 2 GiB: two of them fill the 32 bits of the offsets
BigRepo ==
    [names |-> {Str("f", 1)},
     modes |-> {RegularFile},
     objects |-> {Blob(3, Wide(32768, 0))},
     entries |-> MaxBigEntries, depth |-> 0]

ManyRepo ==
    [names |-> {Str("f", 1)},
     modes |-> {RegularFile},
     objects |-> {Blob(1, W(0))},
     entries |-> ManyEntries, depth |-> 0]

\* Paths of 65535 bytes: 65476 directory records of 46 + 65535 bytes do not
\* fit in the 4095 MiB that zip_dir_size can count
LongRepo ==
    [names |-> {Str("f", 65535)},
     modes |-> {RegularFile},
     objects |-> {Blob(1, W(0))},
     entries |-> LongEntries, depth |-> 0]

\* The zlib streams deflate() can return for a buffer: none, or a stream of
\* at least 8 bytes (header, one block, ADLER32) that is shorter than, as
\* long as, or longer than the buffer once its 6 framing bytes are taken off
ZOuts(buffer) ==
    IF buffer = NoObject \/ zlib_compression_level = 0 THEN {NotCalled}
    ELSE {Z_FAILED} \cup
         { Z_STREAM(n) : n \in { m \in {W(8), WAdd(buffer.size, W(5)),
                                        WAdd(buffer.size, W(6))} :
                                  WLeq(W(8), m) } }

\* What read_sha1_file can answer for the sha1 of an entry: blobs are looked
\* up for regular files only
Answers(mode) == IF S_ISREG(mode) THEN repo.objects ELSE {NoObject}

\* localtime() of commit->date and of time(NULL)
CommitTime ==
    [tm_year |-> 106, tm_mon |-> 7, tm_mday |-> 26,
     tm_hour |-> 12, tm_min |-> 34, tm_sec |-> 56]
WallTime ==
    [tm_year |-> 106, tm_mon |-> 8, tm_mday |-> 1,
     tm_hour |-> 1, tm_min |-> 2, tm_sec |-> 3]

Runs ==
    [repo : {SmallRepo}, level : {0, 6}, commit : BOOLEAN,
     base : {<<>>, Str("p", 3), Str("p", 65535)}]
    \cup
    [repo : {BigRepo}, level : {0, 6}, commit : BOOLEAN, base : {<<>>}]

LongRun == [repo |-> LongRepo, level |-> 0, commit |-> FALSE, base |-> <<>>]

ManyRun == [repo |-> ManyRepo, level |-> 0, commit |-> FALSE, base |-> <<>>]

-----------------------------------------------------------------------------
(* cmd_zip_tree                                                             *)

\* Lines 302-338: the state when the first entry is about to be written
Setup(run) ==
    LET t == dos_time(IF run.commit THEN CommitTime ELSE WallTime)
    IN  /\ repo = run.repo
        /\ zlib_compression_level = run.level
        /\ commit = run.commit
        /\ zip_date = t.dos_date
        /\ zip_time = t.dos_time
        /\ arg_base = run.base
        /\ base = run.base
        /\ baselen = strlen(run.base)
        /\ stack = <<>>
        /\ zip_dir_size = ZIP_DIRECTORY_MIN_SIZE
        /\ zip_offset = W(0)
        /\ zip_dir_offset = W(0)
        /\ zip_dir_entries = 0
        /\ out_total = W(0)
        /\ dir_records = 0
        /\ dir_bytes = W(0)
        /\ calls = 0
        /\ succeeded = 0
        /\ last = NoCall
        /\ lastw = NoRecord
        /\ trailer = NoTrailer
        /\ pc = IF strlen(run.base) > 0 THEN "base" ELSE "tree"

Init == \E run \in Runs : Setup(run)

InitMany == Setup(ManyRun)

\* The build is given up when the entry for the base was not written
AfterBaseEntry_checked(e) == IF e.result = -1 THEN "dead" ELSE "tree"

\* Line 340: the value of write_zip_entry is not looked at
AfterBaseEntry(e) == "tree"

\* The base handed to the traversal as it was given, without the '/'
WriteBase_noSlash ==
    /\ pc = "base"
    /\ write_zip_entry(<<>>, 0, base, BaseMode, NoObject, NotCalled)
    /\ pc' = AfterBaseEntry(last'.entry)
    /\ UNCHANGED <<repo, zlib_compression_level, zip_date, zip_time, commit,
                   arg_base, base, baselen, stack, trailer>>

\* if (baselen > 0) { write_zip_entry(tree->object.sha1, "", 0, base, 040777, 0);
\*                    base = xrealloc(base, baselen + 1);
\*                    base[baselen] = '/'; baselen++; base[baselen] = '\0'; }
\* The bytes of base that the traversal reads are base[0..baselen-1]; the
\* last store is one byte past the baselen + 1 bytes allocated (see Crash).
WriteBase ==
    /\ pc = "base"
    /\ write_zip_entry(<<>>, 0, base, BaseMode, NoObject, NotCalled)
    /\ pc' = AfterBaseEntry(last'.entry)
    /\ base' = base \o Str("/", 1)
    /\ baselen' = baselen + 1
    /\ UNCHANGED <<repo, zlib_compression_level, zip_date, zip_time, commit,
                   arg_base, stack, trailer>>

\* die(): the process ends
die == "dead"

\* Line 344 stored a byte past the end of the allocation of base, which is
\* undefined: the byte falls in unused space and nothing comes of it, or it
\* falls in the allocator's bookkeeping and the allocator ends the process at
\* one of its later calls (each entry allocates and frees).  Calls after the
\* trailer (lines 349-350) change nothing of the state kept here.
Crash ==
    /\ pc = "tree"
    /\ arg_base # <<>>
    /\ pc' = "dead"
    /\ UNCHANGED <<repo, zlib_compression_level, zip_date, zip_time, commit,
                   arg_base, base, baselen, stack, zip_dir_size, zip_offset,
                   zip_dir_offset, zip_dir_entries, out_total, dir_records,
                   dir_bytes, calls, succeeded, last, lastw, trailer>>

\* read_tree_recursive after the callback returned: it enters the directory
\* on READ_TREE_RECURSIVE and goes on to the next entry otherwise.  A
\* directory at the nesting bound is an empty one.
Descends(e) ==
    /\ e.kind = "written"
    /\ e.result = READ_TREE_RECURSIVE
    /\ Len(stack) < repo.depth

\* One entry of the enumeration: read_tree_recursive calls write_zip_entry
Encode ==
    /\ pc = "tree"
    /\ calls < repo.entries
    /\ \E filename \in repo.names, mode \in repo.modes :
         \E obj \in Answers(mode) :
         \E z \in ZOuts(obj) :
           /\ write_zip_entry(base, baselen, filename, mode, obj, z)
           /\ pc' = IF last'.entry.kind = "died" THEN die
                    ELSE IF last'.entry.kind = "growing" THEN "grow"
                    ELSE "tree"
           /\ IF Descends(last'.entry)
              THEN /\ stack' = Append(stack, [base |-> base, baselen |-> baselen])
                   /\ base' = last'.entry.path
                   /\ baselen' = last'.entry.pathlen
              ELSE UNCHANGED <<stack, base, baselen>>
    /\ UNCHANGED <<repo, zlib_compression_level, zip_date, zip_time, commit,
                   arg_base, trailer>>

\* read_tree_recursive returns from a directory to the enclosing one
Ascend ==
    /\ pc = "tree"
    /\ stack # <<>>
    /\ base' = stack[Len(stack)].base
    /\ baselen' = stack[Len(stack)].baselen
    /\ stack' = SubSeq(stack, 1, Len(stack) - 1)
    /\ UNCHANGED <<pc, repo, zlib_compression_level, zip_date, zip_time,
                   commit, arg_base, zip_dir_size, zip_offset, zip_dir_offset,
                   zip_dir_entries, out_total, dir_records, dir_bytes, calls,
                   succeeded, last, lastw, trailer>>

\* Line 347: write_zip_trailer(commit ? commit->object.sha1 : NULL), once
\* read_tree_recursive has returned
Finish ==
    /\ pc = "tree"
    /\ stack = <<>>
    /\ trailer' = write_zip_trailer(commit)
    /\ out_total' = WAdd(out_total,
                         WAdd(zip_dir_offset,
                              W(SizeofDirTrailer + CommentBytes(commit))))
    /\ pc' = "done"
    /\ UNCHANGED <<repo, zlib_compression_level, zip_date, zip_time, commit,
                   arg_base, base, baselen, stack, zip_dir_size, zip_offset,
                   zip_dir_offset, zip_dir_entries, dir_records, dir_bytes,
                   calls, succeeded, last, lastw>>

Next == WriteBase \/ Encode \/ Ascend \/ Finish \/ Crash

Spec == Init /\ [][Next]_vars

\* The flat tree of many files has no base and no directories
NextMany == Encode \/ Finish

SpecMany == InitMany /\ [][NextMany]_vars

InitLong == Setup(LongRun)

\* Lines 209-212 once the addition has wrapped: the loop goes on
GrowLoop ==
    /\ pc = "grow"
    /\ zip_dir_size' = UInt(WAdd(zip_dir_size, ZIP_DIRECTORY_MIN_SIZE))
    /\ UNCHANGED <<pc, repo, zlib_compression_level, zip_date, zip_time,
                   commit, arg_base, base, baselen, stack, zip_offset,
                   zip_dir_offset, zip_dir_entries, out_total, dir_records,
                   dir_bytes, calls, succeeded, last, lastw, trailer>>

NextLong == Encode \/ Finish \/ GrowLoop

SpecLong == InitLong /\ [][NextLong]_vars

\* The command is one sequential process that runs until it returns or dies
\* (read_tree_recursive returns from each directory and cmd_zip_tree goes on
\* to line 347); the tree has finitely many entries.
\* The runs in which entries are skipped are those on the small repository;
\* the date and the digest of a commit play no part in what follows a skip.
InitLive == \E run \in Runs : run.repo = SmallRepo /\ ~run.commit /\ Setup(run)

LiveSpec == InitLive /\ [][Next]_vars /\ WF_vars(Ascend) /\ WF_vars(Finish)

-----------------------------------------------------------------------------
(* Properties                                                               *)

Written == last.entry.kind = "written"
WasSkipped == last.entry.kind = "skipped" /\ calls > 0
Died == last.entry.kind = "died"

\* C1: the local-header offset in an entry's central-directory record is the
\* position of the archive stream (the bytes written to it so far) just
\* before that entry's local header was written.
C1_OffsetIsStreamPosition ==
    Written => le32_value(last.dirent.offset) = last.pos

\* C2: both entry-count fields of the trailer are the number of records that
\* were appended to the central directory buffer.
C2_TrailerCountsRecords ==
    trailer.written =>
        /\ le16_value(trailer.entries) = dir_records
        /\ le16_value(trailer.entries_on_this_disk) = dir_records

\* A step that is one call of write_zip_entry
IsCall == calls' = calls + 1

Cursors == <<zip_offset, zip_dir_offset, zip_dir_entries>>
Outputs == <<out_total, dir_records, dir_bytes>>

\* C3: a call skips its entry exactly when the constructed path is longer
\* than 65535 bytes or the mode is neither directory nor regular file; a
\* skipped call writes nothing and moves no cursor; zip_dir_entries is the
\* number of records appended, which is the number of successful calls.
C3_SkipRule ==
    calls > 0 =>
        (last.entry.kind = "skipped"
            <=> \/ strlen(last.entry.path) > 65535
                \/ S_IFMT(last.entry.mode) \notin {4, 8})
C3_Counts ==
    /\ zip_dir_entries = dir_records
    /\ dir_records = succeeded
C3_SkippedEntries ==
    /\ [](C3_SkipRule /\ C3_Counts)
    /\ [][(IsCall /\ last'.entry.kind = "skipped")
            => UNCHANGED <<Cursors, Outputs>>]_vars

\* A path of 65535 bytes was written and the next one, of 65536 bytes, skipped
C3_Witness ==
    /\ WasSkipped
    /\ strlen(last.entry.path) = 65536
    /\ calls = 2
    /\ dir_records = 1
    /\ dir_bytes = W(46 + 65535)

\* C4: after an entry was skipped (path too long, unsupported mode) the
\* build goes on: the traversal is still under way at the place it had
\* reached, so that the entries that remain are handed to write_zip_entry,
\* and the trailer is still written unless a later entry is fatal.
C4_BuildContinues ==
    /\ [][(IsCall /\ last'.entry.kind = "skipped")
            => /\ pc' = "tree"
               /\ pc = "tree" => UNCHANGED <<base, baselen, stack>>]_vars
    /\ (WasSkipped ~> (trailer.written \/ pc = "dead"))

\* An entry was skipped, a later one was written, and the trailer followed
C4_Witness ==
    /\ trailer.written
    /\ Written
    /\ succeeded < calls

C6_HeaderMatchesRecord ==
    Written =>
       LET h == last.header
           d == last.dirent
       IN  /\ h.compression_method = d.compression_method
           /\ h.mtime = d.mtime
           /\ h.mdate = d.mdate
           /\ h.crc32 = d.crc32
           /\ h.compressed_size = d.compressed_size
           /\ h.size = d.size
           /\ h.filename_length = d.filename_length
           /\ le32_value(h.crc32) =
                IF S_ISREG(last.entry.mode)
                THEN crc32(crc32_init, last.store)
                ELSE crc32_init

\* A deflated entry
C6_Witness ==
    /\ Written
    /\ le16_value(last.header.compression_method) = 8
    /\ last.header.compressed_size # last.header.size
    /\ le32_value(last.dirent.crc32) # crc32_init

\* The low 32 bits of a byte count
Low32(a) == [hi |-> a.hi % 65536, lo |-> a.lo]

\* C7 (as claimed): in every state of a build, before, between and after the
\* entry writes and after write_zip_trailer, zip_offset is the number of
\* bytes written to the archive stream so far, and it never decreases.
C7_CursorIsStreamTotal ==
    /\ [](zip_offset = out_total)
    /\ [][WLeq(zip_offset, zip_offset')]_vars

\* C7 (amended): until write_zip_trailer runs, zip_offset is the number of
\* bytes written to the stream so far modulo 2^32; write_zip_trailer writes
\* the directory, the trailer and the comment without advancing it, so that
\* afterwards it is still the position where the directory began; it
\* decreases only in a step in which the stream total passes a multiple of
\* 2^32.
C7_CursorUntilTrailer ==
    /\ [](~trailer.written => zip_offset = Low32(out_total))
    /\ [](trailer.written =>
            /\ zip_offset = Low32(trailer.dirstart)
            /\ out_total = WAdd(trailer.dirstart,
                                WAdd(trailer.ndir, W(22 + trailer.ncomment))))
    /\ [][\/ WLeq(zip_offset, zip_offset')
          \/ out_total'.hi \div 65536 > out_total.hi \div 65536]_vars

\* The trailer was written after the stream had passed 2^32 bytes
C7_Witness ==
    /\ trailer.written
    /\ out_total.hi >= 65536
    /\ zip_offset # out_total

\* C8 (as claimed): after a successful call zip_offset is the sum of the
\* bytes written for that entry and all earlier ones, and this value is the
\* offset in that same entry's central-directory record.
C8_OffsetAfterIsRecorded ==
    (Written /\ ~trailer.written) =>
        /\ zip_offset = out_total
        /\ le32_value(last.dirent.offset) = zip_offset

\* C8 (amended): after a successful call zip_offset is, modulo 2^32, the sum
\* of the bytes written for that entry and all earlier ones; the offset in
\* that entry's own record is the value zip_offset had before the call, which
\* the call advances by 30 + path length + compressed size.
C8_OffsetBeforeIsRecorded ==
    /\ []((Written /\ ~trailer.written) => zip_offset = Low32(out_total))
    /\ [][(IsCall /\ last'.entry.kind = "written") =>
            /\ le32_value(last'.dirent.offset) = zip_offset
            /\ zip_offset' =
                 Low32(WAdd(zip_offset,
                            WAdd(W(30 + last'.npath), last'.npayload)))]_vars

\* A second entry was written
C8_Witness ==
    /\ Written
    /\ ~trailer.written
    /\ dir_records = 2
    /\ le32_value(last.dirent.offset) # W(0)
    /\ le32_value(last.dirent.offset) # zip_offset

\* C9: write_zip_trailer runs once, after the last call of write_zip_entry,
\* and nothing is written after it; the directory-start offset in the trailer
\* is the stream position of the first byte of the central directory, and the
\* directory-size field is the number of directory bytes written, the sum of
\* 46 + path length over the entries written.
C9_TrailerAfterLastEntry ==
    /\ [](trailer.written =>
            /\ le32_value(trailer.offset) = trailer.dirstart
            /\ le32_value(trailer.size) = trailer.ndir
            /\ trailer.ndir = dir_bytes)
    /\ [](pc = "done" <=> trailer.written)
    /\ [][trailer.written => UNCHANGED <<trailer, calls, out_total>>]_vars

\* C10: when the blob of a regular file cannot be read the build ends at
\* once: the call writes no header, path, payload or directory record and
\* moves no cursor or count, no further call is made, and the directory and
\* the trailer are never written.
LookupFailed(l) ==
    /\ S_ISREG(l.entry.mode)
    /\ strlen(l.entry.path) <= 65535
    /\ l.store = NoObject
C10_LookupFailureIsFatal ==
    /\ []((calls > 0 /\ LookupFailed(last)) =>
            /\ pc = "dead"
            /\ Died
            /\ ~trailer.written)
    /\ [][(IsCall /\ LookupFailed(last')) =>
            /\ UNCHANGED <<Cursors, Outputs>>
            /\ last'.npath = 0
            /\ last'.npayload = W(0)]_vars
    /\ [][pc # "dead"]_vars

\* The second file of a tree could not be read
C10_Witness ==
    /\ Died
    /\ pc = "dead"
    /\ LookupFailed(last)
    /\ dir_records = 1
    /\ calls = 2

\* C11: payload bytes follow an entry's header and path exactly when the
\* compressed-size field of the header is not zero, and then exactly that
\* many; a directory entry has method 0, both sizes 0, no payload, a path
\* that ends in '/' and the value that makes the traversal descend, at
\* every compression level.
EndsInSlash(path) == path # <<>> /\ path[Len(path)].c = "/"
C12_CommentIsDigest ==
    trailer.written =>
        /\ commit => /\ le16_value(trailer.comment_length) = 40
                     /\ trailer.ncomment = 40
        /\ ~commit => /\ le16_value(trailer.comment_length) = 0
                      /\ trailer.ncomment = 0
        /\ out_total = WAdd(WAdd(trailer.dirstart, trailer.ndir),
                            W(22 + le16_value(trailer.comment_length)))

\* The archive of a commit whose tree has two entries
C12_Witness ==
    /\ trailer.written
    /\ commit
    /\ dir_records = 2
    /\ trailer.ncomment = 40

\* C14: whenever a record is written into the directory buffer the capacity
\* zip_dir_size is at least zip_dir_offset + 46 + the path length; the
\* capacity starts at 1 MiB, changes only by whole increments of 1 MiB and
\* never shrinks during a build; zip_dir_offset never exceeds zip_dir_size.
WholeMiB(w) == w.lo = 0 /\ w.hi % 16 = 0
C14_DirectoryFits ==
    /\ [](calls = 0 => zip_dir_size = Wide(16, 0))
    /\ [](WLeq(zip_dir_offset, zip_dir_size))
    /\ [][/\ WLeq(zip_dir_size, zip_dir_size')
          /\ WholeMiB(WSub(zip_dir_size', zip_dir_size))]_vars
    /\ [][(IsCall /\ last'.entry.kind = "written") =>
            WLeq(WAdd(zip_dir_offset, W(46 + last'.npath)),
                 zip_dir_size')]_vars

\* C15: when write_zip_entry returns, on the paths that write an entry and
\* on the paths that skip it, each buffer the call allocated (the path, the
\* blob's content, the compressed output) has been released exactly once:
\* none is still allocated and none was released twice.
Returned == calls > 0 /\ last.entry.kind \in {"written", "skipped"}
C15_BuffersReleasedOnce ==
    Returned =>
        /\ last.mem.allocated["path"] = 1
        /\ S_ISREG(last.entry.mode) /\ strlen(last.entry.path) <= 65535
              => last.mem.allocated["buffer"] = 1
        /\ \A b \in Buffers : /\ last.mem.freed[b] = last.mem.allocated[b]
                               /\ last.mem.freed[b] <= 1

\* A file whose deflated stream was not shorter and was stored instead, so
\* that all three buffers were in use
C15_Witness ==
    /\ Returned
    /\ Written
    /\ last.entry.zout.ok
    /\ last.entry.method = 0
    /\ \A b \in Buffers : last.mem.allocated[b] = 1

\* C16: the records of the central directory are in the order in which the
\* local headers are in the stream, and the local-header offsets of
\* consecutive records strictly increase: the offset of a record is the
\* offset of the record before it plus 30, plus that entry's path length,
\* plus that entry's compressed size.
C16_OffsetsIncrease ==
    [][(IsCall /\ last'.entry.kind = "written" /\ dir_records >= 1) =>
         /\ lastw'.dirpos =
               WAdd(lastw.dirpos,
                    W(46 + le16_value(lastw.dirent.filename_length)))
         /\ WLess(lastw.pos, lastw'.pos)
         /\ WLess(le32_value(lastw.dirent.offset),
                  le32_value(lastw'.dirent.offset))
         /\ le32_value(lastw'.dirent.offset) =
               WAdd(WAdd(le32_value(lastw.dirent.offset),
                         W(30 + le16_value(lastw.dirent.filename_length))),
                    le32_value(lastw.dirent.compressed_size))]_vars

\* C17: the 16-bit filename-length field of the local header and of the
\* directory record is the number of path bytes written after the header
\* and copied after the record, never a truncated value: a path longer than
\* 65535 bytes does not get as far as the headers.
C17_FilenameLengthIsPathLength ==
    /\ [](Written =>
            /\ le16_value(last.header.filename_length) = last.npath
            /\ le16_value(last.dirent.filename_length) = last.npath
            /\ last.npath = strlen(last.entry.path))
    /\ []((calls > 0 /\ strlen(last.entry.path) > 65535) => ~Written)
    /\ [][(IsCall /\ last'.entry.kind = "written") =>
            /\ dir_bytes' =
                  WAdd(dir_bytes,
                       W(46 + le16_value(last'.dirent.filename_length)))
            /\ out_total' =
                  WAdd(WAdd(out_total,
                            W(30 + le16_value(last'.header.filename_length))),
                       last'.npayload)]_vars

\* A path of 65535 bytes, the longest the field holds, was written
C17_Witness ==
    /\ Written
    /\ strlen(last.entry.path) = 65535
    /\ le16_value(last.header.filename_length) = 65535

\* C18: with a non-empty base, the first call of write_zip_entry is the one
\* of cmd_zip_tree for the base: it writes a directory entry whose path is
\* the base followed by '/', with sizes 0, at stream position and
\* local-header offset 0, before any entry of the tree; every entry the
\* traversal hands over afterwards has a path that begins with the base
\* followed by '/'.  Without a base there is no such call, and the first
\* entry written for the tree is at offset 0.
IsPrefix(p, s) == Len(p) <= Len(s) /\ SubSeq(s, 1, Len(p)) = p
BasePath == arg_base \o Str("/", 1)
IsBaseEntry(l) ==
    /\ l.entry.kind = "written"
    /\ S_ISDIR(l.entry.mode)
    /\ l.entry.path = BasePath
    /\ l.npath = strlen(arg_base) + 1
    /\ le32_value(l.header.compressed_size) = W(0)
    /\ le32_value(l.header.size) = W(0)
    /\ l.npayload = W(0)
    /\ l.pos = W(0)
    /\ le32_value(l.dirent.offset) = W(0)
C18_TraversalUnderBase ==
    /\ [](pc = "base" <=> (arg_base # <<>> /\ calls = 0))
    /\ [][(IsCall /\ calls > 0 /\ arg_base # <<>>) =>
            IsPrefix(BasePath, last'.entry.path)]_vars
    /\ [][(IsCall /\ arg_base = <<>> /\ dir_records = 0
                  /\ last'.entry.kind = "written") =>
            /\ last'.pos = W(0)
            /\ le32_value(last'.dirent.offset) = W(0)]_vars
C18_BaseEntryFirst ==
    /\ C18_TraversalUnderBase
    /\ [][(IsCall /\ calls = 0 /\ arg_base # <<>>) => IsBaseEntry(last')]_vars

\* C18 as the code has it: the entry for the base is written when the base
\* and its '/' are at most 65535 bytes; a longer one is skipped like any
\* path that long, nothing is written for it, and the traversal still starts
\* with the base followed by '/'.
C18_BaseEntryFirstUnlessTooLong ==
    /\ C18_TraversalUnderBase
    /\ [][(IsCall /\ calls = 0 /\ arg_base # <<>>) =>
            /\ pc' = "tree"
            /\ base' = BasePath
            /\ baselen' = strlen(arg_base) + 1
            /\ IF strlen(arg_base) + 1 <= 65535
               THEN IsBaseEntry(last')
               ELSE /\ last'.entry.kind = "skipped"
                    /\ last'.entry.path = BasePath
                    /\ UNCHANGED <<Cursors, Outputs>>]_vars

\* The entry of base "ppp" at offset 0 and a file of the tree after it
C18_Witness ==
    /\ arg_base = Str("p", 3)
    /\ calls = 2
    /\ dir_records = 2
    /\ Written
    /\ S_ISREG(last.entry.mode)
    /\ IsPrefix(BasePath, last.entry.path)
    /\ last.pos = W(34)

====
